---- MODULE Spec2Model ----
(***************************************************************************)
(* The state-reduction mechanism of the LangGraph examples                 *)
(* (src/03-langgraph-basics/01-state.ts and 02-nodes.ts): a state schema   *)
(* with an overwrite field `name` and an append field `items`, two nodes   *)
(* per graph, the edges START -> nodeA -> nodeB -> END, and invoke.        *)
(* Also: the manual tool loop of 03-multiple-tools.ts, the schema          *)
(* validation of transferMoney in 02-tool-with-schema.ts, and the tool     *)
(* factories of 04-dynamic-tools.ts, each under its own specification;     *)
(* main of 01-fundamentals/04-streaming.ts with its streaming demos, and   *)
(* executeToolCalls of 03-multiple-tools.ts one loop pass at a time.       *)
(***************************************************************************)
EXTENDS Integers, Sequences, FiniteSets, TLC

\* ------------------------------------------------------------------ bounds
\* longest `items` list a caller passes to invoke
MaxInputLen == 2
\* number of updates reduced one after another in the merge specification
MaxSteps == 3

\* ----------------------------------------------------------- value domains
\* names a caller may put in the initial partial state
InputNames == {"Grace", "Alan"}
\* elements of the lists a caller or an update carries
Elems == {"a", "b"}
\* sequences over S of length at most n
RECURSIVE SeqsUpTo(_, _)
SeqsUpTo(S, n) ==
  IF n = 0 THEN {<<>>}
  ELSE LET shorter == SeqsUpTo(S, n - 1)
       IN  shorter \cup {Append(s, e) : s \in {t \in shorter : Len(t) = n - 1}, e \in S}

\* a partial state: a mapping from some of the fields to values
Partial(nameSet, itemSet) ==
  {<<>>}
    \cup {[f \in {"name"} |-> n] : n \in nameSet}
    \cup {[f \in {"items"} |-> i] : i \in itemSet}
    \cup {[f \in {"name", "items"} |-> IF f = "name" THEN p[1] ELSE p[2]] :
            p \in nameSet \X itemSet}

\* what a caller may pass to invoke
Inputs == Partial(InputNames, SeqsUpTo(Elems, MaxInputLen))

\* the partial updates a step may return in the merge specification
Updates == Partial(InputNames, SeqsUpTo(Elems, 1))

\* ------------------------------------------------------------ state schema
\* the fields declared by Annotation.Root
Fields == {"name", "items"}

\* the fields declared with a reducer (the others are overwritten)
ReducerFields == {"items"}

\* a wrong reducer: prepends the update instead of appending it
reducerPrepend(x, y) == y \o x

\* a wrong reducer: the update replaces the list
reducerReplace(x, y) == y

\* items: reducer: (x, y) => x.concat(y)
reducer(x, y) == x \o y

\* a wrong schema: `name` gets a default value too
DefaultsWithName == [f \in Fields |-> IF f = "items" THEN <<>> ELSE ""]

\* the declared defaults: items has default: () => [], name has none
Defaults == [f \in {"items"} |-> <<>>]

\* a wrong merge: a field that already has a value keeps it (first write wins)
ApplyUpdateKeepFirst(state, update) ==
  [f \in (DOMAIN state) \cup (DOMAIN update) |->
     IF f \notin DOMAIN update THEN state[f]
     ELSE IF f \in ReducerFields /\ f \in DOMAIN state THEN reducer(state[f], update[f])
     ELSE IF f \in DOMAIN state THEN state[f]
     ELSE update[f]]

\* a wrong merge: the update replaces the whole state
ApplyUpdateReplaceAll(state, update) ==
  [f \in DOMAIN update |->
     IF f \in ReducerFields /\ f \in DOMAIN state THEN reducer(state[f], update[f])
     ELSE update[f]]

\* a wrong merge: the reducer fields of an update are merged, the others dropped
ApplyUpdateReducersOnly(state, update) ==
  [f \in (DOMAIN state) \cup ((DOMAIN update) \cap ReducerFields) |->
     IF f \notin DOMAIN update THEN state[f]
     ELSE IF f \in ReducerFields /\ f \in DOMAIN state THEN reducer(state[f], update[f])
     ELSE IF f \in ReducerFields THEN update[f]
     ELSE state[f]]

\* merging a partial update into the state, field by field: a field with a
\* reducer gets reducer(current, update), any other field is overwritten, a
\* field absent from the update keeps its value
ApplyUpdate(state, update) ==
  [f \in (DOMAIN state) \cup (DOMAIN update) |->
     IF f \notin DOMAIN update THEN state[f]
     ELSE IF f \in ReducerFields /\ f \in DOMAIN state THEN reducer(state[f], update[f])
     ELSE update[f]]

\* reducing a sequence of updates into a state, one after another
RECURSIVE ReduceUpdates(_, _)
ReduceUpdates(state, updates) ==
  IF updates = <<>> THEN state
  ELSE ReduceUpdates(ApplyUpdate(state, Head(updates)), Tail(updates))

\* a wrong reducer on array objects: x.push(...y) changes x itself and returns it
concatInPlace(h, x, y) == [heap |-> [h EXCEPT ![x] = reducer(h[x], y)], ref |-> x]

\* x.concat(y) on array objects: h holds the contents of every array made so
\* far, x is the array concat is called on; a new array is made, x is kept
concat(h, x, y) == [heap |-> Append(h, reducer(h[x], y)), ref |-> Len(h) + 1]

\* the array that holds the items after an update is merged: the reducer is
\* called only when the update carries items
MergeItems(h, x, update) ==
  IF "items" \in DOMAIN update THEN concat(h, x, update["items"])
  ELSE [heap |-> h, ref |-> x]

\* ------------------------------------------------------------- the graphs
\* the two scripts: "state" is 01-state.ts, "nodes" is 02-nodes.ts
Progs == {"state", "nodes"}

START == "__start__"
END == "__end__"

\* the name each script registers its first and second node under
NodeAName(p) == IF p = "state" THEN "nodeA" ELSE "node_a"
NodeBName(p) == IF p = "state" THEN "nodeB" ELSE "node_b"

\* nodeA returns an update that sets the name and adds an item
nodeA(p, state) ==
  IF p = "state"
  THEN [f \in {"items", "name"} |-> IF f = "items" THEN <<"Apple">> ELSE "John"]
  ELSE [f \in {"items", "name"} |->
          IF f = "items" THEN <<"First Algorithm">> ELSE "Ada Lovelace"]

\* nodeB returns an update that only adds an item
nodeB(p, state) ==
  IF p = "state"
  THEN [f \in {"items"} |-> <<"Banana">>]
  ELSE [f \in {"items"} |-> <<"Analytical Engine">>]

\* the function registered under a node name by addNode
NodeFn(p, n, state) == IF n = NodeAName(p) THEN nodeA(p, state) ELSE nodeB(p, state)

\* wrong edges: nodeA leads straight to END, nodeB is never reached
graphBuilderSkipB(p) ==
  { <<START, NodeAName(p)>>, <<NodeAName(p), END>>, <<NodeBName(p), END>> }

\* the edges added by addEdge: START -> nodeA -> nodeB -> END
graphBuilder(p) ==
  { <<START, NodeAName(p)>>, <<NodeAName(p), NodeBName(p)>>, <<NodeBName(p), END>> }

\* ------------------------------------------------------------------- state
VARIABLES
  prog,      \* which script is running
  pc,        \* "idle" before invoke, "running" during the run, "done" after it
  input,     \* the partial state the caller passed to invoke
  state,     \* the current State of the run
  at,        \* the last node whose update was merged (START before the first)
  running,   \* the node that is executing, or "none"
  trace,     \* the nodes started so far, each with the state it was given
  result,    \* <<>> until invoke returns, then <<the final State>>
  base,      \* merge specification: the state the reduction started from
  applied,   \* merge specification: the updates reduced so far, in order
  prev,      \* merge specification: the state before the last update
  acc,       \* merge specification: the state after the last update
  error,     \* the node whose failure ended the run, or "none"
  out,       \* what the script has printed after invoke: "final" or "error"
  heap,      \* the contents of every items array made so far
  itemsRef,  \* the array that holds the State's items
  sawRef,    \* for each entry of trace, the items array the node was given
  messages,  \* demoToolLoop: the conversation history
  iteration, \* demoToolLoop: the iteration counter
  lpc,       \* demoToolLoop: "top" of the loop, "tools" to execute, "done"
  finalAnswer, \* demoToolLoop: TRUE once "Final Answer" has been printed
  now,       \* the last reading of Date.now()
  targs,     \* transferMoney: the arguments of the invocation
  tpc,       \* transferMoney: "idle", "validating", "executing", "returned", "caught"
  bodyRan,   \* transferMoney: TRUE once the tool function has run
  toutcome,  \* transferMoney: <<>>, <<the result>> or <<the thrown error>>
  user,      \* dynamic tools: <<the user the tools were made for>>, or <<>>
  userTools, \* dynamic tools: the result of createUserContextTools
  companies, \* dynamic tools: the records given to createCompanyTools
  companyTools, \* dynamic tools: the result of createCompanyTools
  lastResult, \* dynamic tools: <<>> or <<the last company tool result>>
  demo,      \* streaming: the position in main's list of demos
  spc,       \* streaming: "call", "iterating", "done" or "rejected"
  delivered, \* streaming: the contents of the chunks the open stream has given
  fullResponse, \* demoCollectStream: the text collected so far
  chunkCount, \* demoCollectStream: the number of chunks counted so far
  outcomes,  \* streaming: how each demo that has ended did end
  errAt,     \* demoStreamErrors: <<>> or <<chunks given before the error>>
  printed,   \* streaming: the lines printed by demoStreamErrors and main's end
  ecalls,    \* executeToolCalls: <<>> or <<the toolCalls argument>>
  results,   \* executeToolCalls: the results array
  epc,       \* executeToolCalls: "idle", "loop", "returned" or "rejected"
  ecur       \* executeToolCalls: the calls being executed, each with its id

graphExt == <<error, out, heap, itemsRef, sawRef>>

graphVars == <<prog, pc, input, state, at, running, trace, result, base, applied, prev, acc,
               error, out, heap, itemsRef, sawRef>>

loopVars == <<messages, iteration, lpc, finalAnswer, now>>

toolVars == <<targs, tpc, bodyRan, toutcome>>

dynVars == <<user, userTools, companies, companyTools, lastResult>>

streamVars == <<demo, spc, delivered, fullResponse, chunkCount, outcomes, errAt, printed>>

execVars == <<ecalls, results, epc, ecur>>

\* the variables the graph run and the merge specification leave alone
otherVars == <<loopVars, toolVars, dynVars, streamVars, execVars>>

vars == <<graphVars, loopVars, toolVars, dynVars, streamVars, execVars>>

\* ------------------------------------------- demoToolLoop (03-multiple-tools)
\* const maxIterations = 5
maxIterations == 5

\* the largest reading of Date.now() in a run
MaxTick == 1

\* the names executeToolCalls has a case for
allTools == {"calculator", "get_weather", "convert_units", "get_datetime"}

\* tool calls a model response may carry: with an id, without one, and for a
\* tool that does not exist
WeatherCall == [name |-> "get_weather", id |-> "call_a"]
ConvertCall == [f \in {"name"} |-> "convert_units"]
UnknownCall == [name |-> "get_stock", id |-> "call_b"]

\* the tool_calls of the responses the model may give; <<>> is a final answer
Responses ==
  { <<>>, <<WeatherCall>>, <<ConvertCall, WeatherCall>>, <<UnknownCall, ConvertCall>> }

\* new HumanMessage(query)
HumanMessage == [type |-> "human"]

\* the response of modelWithTools.invoke
AIMessage(calls) == [type |-> "ai", tool_calls |-> calls]

\* what the switch on call.name produces
ToolContent(name) ==
  IF name \in allTools THEN "result of " \o name ELSE "Unknown tool: " \o name

\* const toolCallId = call.id ?? `call_${Date.now()}`
ToolCallId(call, t) ==
  IF "id" \in DOMAIN call THEN call["id"] ELSE "call_" \o ToString(t)

\* new ToolMessage({ content, tool_call_id, name })
ToolMessage(content, toolCallId, name) ==
  [type |-> "tool", content |-> content, tool_call_id |-> toolCallId, name |-> name]

\* a wrong executeToolCalls: the results are put in front of the array, so
\* they come out in the reverse order of the calls
executeToolCallsReversed(toolCalls, times) ==
  [k \in 1..Len(toolCalls) |->
     LET call == toolCalls[Len(toolCalls) + 1 - k]
     IN  ToolMessage(ToolContent(call["name"]),
                     ToolCallId(call, times[Len(toolCalls) + 1 - k]),
                     call["name"])]

\* executeToolCalls: one ToolMessage per call, pushed in the order of the
\* calls; times[k] is the reading of Date.now() while call k is handled
executeToolCalls(toolCalls, times) ==
  [k \in 1..Len(toolCalls) |->
     ToolMessage(ToolContent(toolCalls[k]["name"]),
                 ToolCallId(toolCalls[k], times[k]),
                 toolCalls[k]["name"])]

\* the readings of a clock that stands at t0 and never goes back, n of them
ClockReadings(t0, n) ==
  { ts \in [1..n -> t0..MaxTick] : \A k \in 1..(n - 1) : ts[k] <= ts[k + 1] }

\* a wrong loop: the final answer is printed but the loop goes on
LoopInvokeNoBreak ==
  /\ lpc = "top"
  /\ iteration < maxIterations
  /\ iteration' = iteration + 1
  /\ \E calls \in Responses :
       /\ messages' = Append(messages, AIMessage(calls))
       /\ IF Len(calls) > 0
          THEN lpc' = "tools" /\ UNCHANGED finalAnswer
          ELSE lpc' = "top" /\ finalAnswer' = TRUE
  /\ UNCHANGED <<now, graphVars, toolVars, dynVars, streamVars, execVars>>

\* a wrong loop: while (iteration <= maxIterations) makes one pass too many
LoopInvokeOffByOne ==
  /\ lpc = "top"
  /\ iteration <= maxIterations
  /\ iteration' = iteration + 1
  /\ \E calls \in Responses :
       /\ messages' = Append(messages, AIMessage(calls))
       /\ IF Len(calls) > 0
          THEN lpc' = "tools" /\ UNCHANGED finalAnswer
          ELSE lpc' = "done" /\ finalAnswer' = TRUE
  /\ UNCHANGED <<now, graphVars, toolVars, dynVars, streamVars, execVars>>

\* one pass of the while loop up to the tool execution: iteration++, the
\* model is invoked with the history, its response is pushed; without tool
\* calls the final answer is printed and the loop is left
LoopInvoke ==
  /\ lpc = "top"
  /\ iteration < maxIterations
  /\ iteration' = iteration + 1
  /\ \E calls \in Responses :
       /\ messages' = Append(messages, AIMessage(calls))
       /\ IF Len(calls) > 0
          THEN lpc' = "tools" /\ UNCHANGED finalAnswer
          ELSE lpc' = "done" /\ finalAnswer' = TRUE
  /\ UNCHANGED <<now, graphVars, toolVars, dynVars, streamVars, execVars>>

\* the rest of the pass: the requested tools are executed and every result
\* is pushed onto the history
LoopTools ==
  /\ lpc = "tools"
  /\ LET calls == messages[Len(messages)].tool_calls
     IN  \E times \in ClockReadings(now, Len(calls)) :
           /\ messages' = messages \o executeToolCalls(calls, times)
           /\ now' = times[Len(calls)]
  /\ lpc' = "top"
  /\ UNCHANGED <<iteration, finalAnswer, graphVars, toolVars, dynVars, streamVars, execVars>>

\* the while condition fails: iteration has reached maxIterations
LoopExit ==
  /\ lpc = "top"
  /\ ~(iteration < maxIterations)
  /\ lpc' = "done"
  /\ UNCHANGED <<messages, iteration, finalAnswer, now>>
  /\ UNCHANGED <<graphVars, toolVars, dynVars, streamVars, execVars>>

\* demoToolLoop before its loop: the history holds the user's message
LoopStart ==
  /\ messages = <<HumanMessage>>
  /\ iteration = 0
  /\ lpc = "top"
  /\ finalAnswer = FALSE
  /\ now = 0

\* ----------------------------- executeToolCalls, one loop pass at a time
\* most tool calls in one model response
MaxCalls == 3

\* a second tool call that arrives without an id
DatetimeCall == [f \in {"name"} |-> "get_datetime"]

\* the tool calls executeToolCalls may be given
Calls == {WeatherCall, ConvertCall, UnknownCall, DatetimeCall}

\* the ids the provider did give are pairwise different within a response
ProvidedIdsDistinct(cs) ==
  \A i, j \in 1..Len(cs) :
    (i # j /\ "id" \in DOMAIN cs[i] /\ "id" \in DOMAIN cs[j]) => cs[i]["id"] # cs[j]["id"]

\* the toolCalls arguments: any list of calls, the same call more than once
\* too
CallLists == {cs \in SeqsUpTo(Calls, MaxCalls) : ProvidedIdsDistinct(cs)}

\* the number of calls whose loop pass has begun
Begun == Len(results) + Cardinality(ecur)

\* executeToolCalls(toolCalls) is called: const results = []
ExecCall ==
  /\ epc = "idle"
  /\ \E cs \in CallLists : ecalls' = cs
  /\ results' = <<>>
  /\ epc' = "loop"
  /\ UNCHANGED <<ecur, graphVars, loopVars, toolVars, dynVars, streamVars>>

\* a wrong loop: the next call is begun without awaiting the one before it
ExecBeginParallel ==
  /\ epc = "loop"
  /\ Begun < Len(ecalls)
  /\ \E t \in now..MaxTick :
       /\ now' = t
       /\ ecur' = ecur \cup {[k |-> Begun + 1, id |-> ToolCallId(ecalls[Begun + 1], t)]}
  /\ UNCHANGED <<ecalls, results, epc, messages, iteration, lpc, finalAnswer>>
  /\ UNCHANGED <<graphVars, toolVars, dynVars, streamVars>>

\* a pass of the for loop begins with the next call: toolCallId is taken
\* from the call or made from Date.now(), then the switch awaits the tool
ExecBegin ==
  /\ epc = "loop"
  /\ ecur = {}
  /\ Begun < Len(ecalls)
  /\ \E t \in now..MaxTick :
       /\ now' = t
       /\ ecur' = ecur \cup {[k |-> Begun + 1, id |-> ToolCallId(ecalls[Begun + 1], t)]}
  /\ UNCHANGED <<ecalls, results, epc, messages, iteration, lpc, finalAnswer>>
  /\ UNCHANGED <<graphVars, toolVars, dynVars, streamVars>>

\* the awaited tool gives its result (or the default case made one) and the
\* ToolMessage is pushed onto results
ExecPush ==
  /\ epc = "loop"
  /\ \E c \in ecur :
       /\ results' = Append(results,
                            ToolMessage(ToolContent(ecalls[c.k]["name"]), c.id,
                                        ecalls[c.k]["name"]))
       /\ ecur' = ecur \ {c}
  /\ UNCHANGED <<ecalls, epc, graphVars, loopVars, toolVars, dynVars, streamVars>>

\* the awaited tool rejects (the arguments the model gave do not pass the
\* tool's schema): there is no handler, executeToolCalls rejects
ExecThrow ==
  /\ epc = "loop"
  /\ \E c \in ecur : ecalls[c.k]["name"] \in allTools
  /\ epc' = "rejected"
  /\ UNCHANGED <<ecalls, results, ecur, graphVars, loopVars, toolVars, dynVars, streamVars>>

\* the loop is over: return results
ExecReturn ==
  /\ epc = "loop"
  /\ ecur = {}
  /\ Begun = Len(ecalls)
  /\ epc' = "returned"
  /\ UNCHANGED <<ecalls, results, ecur, graphVars, loopVars, toolVars, dynVars, streamVars>>

\* before executeToolCalls is called
ExecIdle ==
  /\ ecalls = <<>>
  /\ results = <<>>
  /\ epc = "idle"
  /\ ecur = {}

\* --------------------------------------- transferMoney (02-tool-with-schema)
\* the characters [A-Z] and \d of the account pattern
UpperCase ==
  {"A", "B", "C", "D", "E", "F", "G", "H", "I", "J", "K", "L", "M",
   "N", "O", "P", "Q", "R", "S", "T", "U", "V", "W", "X", "Y", "Z"}

Digits == {"0", "1", "2", "3", "4", "5", "6", "7", "8", "9"}

\* account strings, as sequences of characters
AccountBR == <<"B", "R", "1", "2", "3", "4", "5", "6", "7", "8", "9", "0">>
AccountUS == <<"U", "S", "0", "9", "8", "7", "6", "5", "4", "3", "2", "1">>
AccountWord == <<"i", "n", "v", "a", "l", "i", "d">>
AccountLower == <<"b", "r", "1", "2", "3", "4", "5", "6", "7", "8", "9", "0">>
AccountShort == <<"B", "R", "1", "2", "3", "4", "5", "6", "7", "8", "9">>
AccountLong == <<"B", "R", "1", "2", "3", "4", "5", "6", "7", "8", "9", "0", "1">>
AccountDigitFirst == <<"B", "1", "1", "2", "3", "4", "5", "6", "7", "8", "9", "0">>

Accounts ==
  {AccountBR, AccountUS, AccountWord, AccountLower, AccountShort, AccountLong,
   AccountDigitFirst}

\* .max(1000000) of amount
MaxAmount == 1000000

\* .max(200) of description
MaxDescription == 200

\* s repeated n times
RECURSIVE Repeat(_, _)
Repeat(str, n) ==
  IF n = 0 THEN ""
  ELSE IF n % 2 = 0 THEN LET half == Repeat(str, n \div 2) IN half \o half
  ELSE str \o Repeat(str, n - 1)

Amounts == {0 - 5, 0, 100, MaxAmount, MaxAmount + 1}

Currencies == {"USD", "EUR", "BRL", "GBP"}

Descriptions == {"rent", Repeat("x", MaxDescription), Repeat("x", MaxDescription + 1)}

\* the argument objects given to transferMoney.invoke: currency and
\* description may be left out
TransferArgs ==
  LET required == [fromAccount : Accounts, toAccount : Accounts, amount : Amounts]
      withCur == { [f \in {"fromAccount", "toAccount", "amount", "currency"} |->
                      IF f = "currency" THEN p[2] ELSE p[1][f]] :
                   p \in required \X (Currencies \cup {"JPY"}) }
      withDesc == { [f \in {"fromAccount", "toAccount", "amount", "description"} |->
                      IF f = "description" THEN p[2] ELSE p[1][f]] :
                    p \in required \X Descriptions }
  IN  required \cup withCur \cup withDesc

\* .regex(/^[A-Z]{2}\d{10}$/)
MatchesAccount(a) ==
  /\ Len(a) = 12
  /\ a[1] \in UpperCase
  /\ a[2] \in UpperCase
  /\ \A i \in 3..12 : a[i] \in Digits

\* a wrong schema: the .refine on different accounts is missing
transferMoneySchemaNoRefine(args) ==
  /\ MatchesAccount(args["fromAccount"])
  /\ MatchesAccount(args["toAccount"])
  /\ args["amount"] > 0
  /\ args["amount"] <= MaxAmount
  /\ "currency" \in DOMAIN args => args["currency"] \in Currencies
  /\ "description" \in DOMAIN args => Len(args["description"]) <= MaxDescription

\* the schema of transferMoney: the field checks and the .refine
transferMoneySchema(args) ==
  /\ MatchesAccount(args["fromAccount"])
  /\ MatchesAccount(args["toAccount"])
  /\ args["amount"] > 0
  /\ args["amount"] <= MaxAmount
  /\ "currency" \in DOMAIN args => args["currency"] \in Currencies
  /\ "description" \in DOMAIN args => Len(args["description"]) <= MaxDescription
  /\ args["fromAccount"] # args["toAccount"]

\* the tool function of transferMoney: currency defaults to USD, the amount
\* is written with two decimals (kept here as hundredths)
transferMoney(args) ==
  [success |-> TRUE,
   from |-> args["fromAccount"],
   to |-> args["toAccount"],
   currency |-> IF "currency" \in DOMAIN args THEN args["currency"] ELSE "USD",
   hundredths |-> args["amount"] * 100]

\* transferMoney.invoke(args) is called inside a try block
ToolInvoke ==
  /\ tpc = "idle"
  /\ \E args \in TransferArgs : targs' = <<args>>
  /\ tpc' = "validating"
  /\ UNCHANGED <<bodyRan, toutcome, graphVars, loopVars, dynVars, streamVars, execVars>>

\* the arguments are parsed with the schema: on a violation invoke throws
\* and the catch block of demoValidation gets the error
ToolValidate ==
  /\ tpc = "validating"
  /\ IF transferMoneySchema(targs[1])
     THEN tpc' = "executing" /\ UNCHANGED toutcome
     ELSE tpc' = "caught" /\ toutcome' = <<[success |-> FALSE]>>
  /\ UNCHANGED <<targs, bodyRan, graphVars, loopVars, dynVars, streamVars, execVars>>

\* the tool function runs on the parsed arguments and invoke returns
ToolExecute ==
  /\ tpc = "executing"
  /\ bodyRan' = TRUE
  /\ toutcome' = <<transferMoney(targs[1])>>
  /\ tpc' = "returned"
  /\ UNCHANGED <<targs, graphVars, loopVars, dynVars, streamVars, execVars>>

\* before transferMoney is invoked
ToolIdle ==
  /\ targs = <<>>
  /\ tpc = "idle"
  /\ bodyRan = FALSE
  /\ toutcome = <<>>

\* ------------------------------------------- dynamic tools (04-dynamic-tools)
\* longest permissions list of a user
MaxPerms == 2

\* most records given to createCompanyTools
MaxCompanies == 3

\* const companiesDatabase
companiesDatabase ==
  << [id |-> "apple", name |-> "Apple Inc.", industry |-> "Technology",
      employees |-> 164000, revenue |-> "$394.3B", founded |-> 1976],
     [id |-> "google", name |-> "Google LLC", industry |-> "Technology",
      employees |-> 182000, revenue |-> "$307.4B", founded |-> 1998],
     [id |-> "tesla", name |-> "Tesla Inc.", industry |-> "Automotive/Energy",
      employees |-> 140000, revenue |-> "$96.8B", founded |-> 2003] >>

\* the lists of records createCompanyTools may be given
CompanyLists ==
  SeqsUpTo({companiesDatabase[i] : i \in 1..Len(companiesDatabase)}, MaxCompanies)

\* the values of new Date().getFullYear()
Years == {2025, 2026}

\* n.toLocaleString() with groups of three digits: the groups, first to last
RECURSIVE toLocaleString(_)
toLocaleString(n) ==
  IF n < 1000 THEN <<n>> ELSE Append(toLocaleString(n \div 1000), n % 1000)

\* the function of a company tool, with the record its closure holds
CompanyInfo(company, year) ==
  [name |-> company.name,
   industry |-> company.industry,
   employees |-> toLocaleString(company.employees),
   revenue |-> company.revenue,
   founded |-> company.founded,
   age |-> year - company.founded]

\* a wrong factory: every tool's function reads one shared variable, which
\* holds the last record when the tools are invoked
createCompanyToolsSharedVar(cs) ==
  [i \in 1..Len(cs) |->
     [name |-> "get_" \o cs[i].id \o "_info", company |-> cs[Len(cs)]]]

\* createCompanyTools: companies.map, one tool per record; the name is made
\* from the record's id and the function closes over the record
createCompanyTools(cs) ==
  [i \in 1..Len(cs) |->
     [name |-> "get_" \o cs[i].id \o "_info", company |-> cs[i]]]

\* interface UserContext: role and permissions; name and userId as in the demo
Roles == {"admin", "user", "guest"}

Permissions == {"read_reports", "write_reports", "manage_users"}

UserName(role) ==
  IF role = "admin" THEN "Alice Admin" ELSE IF role = "user" THEN "Bob User" ELSE "Guest"

\* adminUser's permissions in demoContextAwareTools
AdminPermissions == <<"read_reports", "write_reports", "manage_users">>

Users ==
  { [name |-> UserName(p[1]), role |-> p[1], permissions |-> p[2]] :
      p \in Roles \X (SeqsUpTo(Permissions, MaxPerms) \cup {AdminPermissions}) }

\* array.includes(x)
includes(array, x) == \E i \in 1..Len(array) : array[i] = x

\* a wrong check: the admin tool is given for the manage_users permission
\* instead of the admin role
createUserContextToolsByPermission(u) ==
  LET basic == << [name |-> "get_current_user", user |-> u] >>
      reports ==
        IF includes(u.permissions, "read_reports")
        THEN Append(basic, [name |-> "get_report", user |-> u])
        ELSE basic
  IN  IF includes(u.permissions, "manage_users")
      THEN Append(reports, [name |-> "admin_user_action", user |-> u])
      ELSE reports

\* createUserContextTools: the basic tool, then get_report for the
\* read_reports permission, then admin_user_action for the admin role
createUserContextTools(u) ==
  LET basic == << [name |-> "get_current_user", user |-> u] >>
      reports ==
        IF includes(u.permissions, "read_reports")
        THEN Append(basic, [name |-> "get_report", user |-> u])
        ELSE basic
  IN  IF u.role = "admin"
      THEN Append(reports, [name |-> "admin_user_action", user |-> u])
      ELSE reports

\* demoContextAwareTools: createUserContextTools(user), applied once to any
\* user
DemoContext ==
  /\ user = <<>>
  /\ \E u \in Users :
       /\ user' = <<u>>
       /\ userTools' = createUserContextTools(u)
  /\ UNCHANGED <<companies, companyTools, lastResult>>
  /\ UNCHANGED <<graphVars, loopVars, toolVars, streamVars, execVars>>

\* demoToolFactory: createCompanyTools(companies), applied once to any list
\* of records
DemoFactory ==
  /\ companyTools = <<>>
  /\ \E cs \in CompanyLists :
       /\ companies' = cs
       /\ companyTools' = createCompanyTools(cs)
  /\ lastResult' = <<>>
  /\ UNCHANGED <<user, userTools, graphVars, loopVars, toolVars, streamVars, execVars>>

\* selectedTool.invoke(call): one of the company tools is invoked
InvokeCompanyTool ==
  /\ \E i \in 1..Len(companyTools), y \in Years :
       lastResult' = << [tool |-> i, year |-> y,
                         data |-> CompanyInfo(companyTools[i].company, y)] >>
  /\ UNCHANGED <<user, userTools, companies, companyTools>>
  /\ UNCHANGED <<graphVars, loopVars, toolVars, streamVars, execVars>>

\* before any tool is made
DynStart ==
  /\ user = <<>>
  /\ userTools = <<>>
  /\ companies = <<>>
  /\ companyTools = <<>>
  /\ lastResult = <<>>

\* ------------------------------------------------- streaming (04-streaming)
\* most chunks a stream gives before it ends
MaxChunks == 3

\* the demos main awaits one after another
Demos ==
  << "demoInvokeVsStream", "demoChatGPTEffect", "demoCollectStream",
     "demoStreamWithMetadata", "demoStreamEvents", "demoStreamErrors",
     "demoPerformanceComparison" >>

\* the demo main is in
CurrentDemo == Demos[demo]

\* chunk.content of the chunks the model's stream may give: the chat model
\* gives text, and a chunk's text may be empty
Contents == {"", "Type", "Script"}

\* String(chunk.content): the String of a string is that string
String(content) == content

\* what main does when a demo has returned: the next demo is called, or
\* after the last one the summary is printed
MainGoesOn(how) ==
  /\ outcomes' = Append(outcomes, how)
  /\ IF demo < Len(Demos)
     THEN demo' = demo + 1 /\ spc' = "call"
     ELSE demo' = demo /\ spc' = "done"

\* await model.stream(...) resolves: the demo starts its for await loop
StreamOpen ==
  /\ spc = "call"
  /\ spc' = "iterating"
  /\ delivered' = <<>>
  /\ UNCHANGED <<demo, fullResponse, chunkCount, outcomes, errAt, printed>>
  /\ UNCHANGED <<graphVars, loopVars, toolVars, dynVars, execVars>>

\* a wrong loop body: the new text is put in front of the collected text
StreamChunkPrepend ==
  /\ spc = "iterating"
  /\ Len(delivered) < MaxChunks
  /\ \E content \in Contents :
       /\ delivered' = Append(delivered, content)
       /\ IF CurrentDemo = "demoCollectStream"
          THEN /\ fullResponse' = String(content) \o fullResponse
               /\ chunkCount' = chunkCount + 1
          ELSE UNCHANGED <<fullResponse, chunkCount>>
  /\ UNCHANGED <<demo, spc, outcomes, errAt, printed>>
  /\ UNCHANGED <<graphVars, loopVars, toolVars, dynVars, execVars>>

\* the stream gives a chunk and the loop body runs on it; in
\* demoCollectStream: text = String(chunk.content), fullResponse += text,
\* chunkCount++
StreamChunk ==
  /\ spc = "iterating"
  /\ Len(delivered) < MaxChunks
  /\ \E content \in Contents :
       /\ delivered' = Append(delivered, content)
       /\ IF CurrentDemo = "demoCollectStream"
          THEN /\ fullResponse' = fullResponse \o String(content)
               /\ chunkCount' = chunkCount + 1
          ELSE UNCHANGED <<fullResponse, chunkCount>>
  /\ UNCHANGED <<demo, spc, outcomes, errAt, printed>>
  /\ UNCHANGED <<graphVars, loopVars, toolVars, dynVars, execVars>>

\* the stream ends: the for await loop is left
StreamEnd ==
  /\ spc = "iterating"
  /\ spc' = "finished"
  /\ UNCHANGED <<demo, delivered, fullResponse, chunkCount, outcomes, errAt, printed>>
  /\ UNCHANGED <<graphVars, loopVars, toolVars, dynVars, execVars>>

\* the lines after the loop are printed (in demoStreamErrors the success
\* line, inside the try block) and the demo returns: its local variables are
\* gone and main goes on
DemoReturn ==
  /\ spc = "finished"
  /\ printed' = IF CurrentDemo = "demoStreamErrors" THEN Append(printed, "success")
                ELSE IF demo = Len(Demos) THEN Append(printed, "summary")
                ELSE printed
  /\ delivered' = <<>>
  /\ fullResponse' = ""
  /\ chunkCount' = 0
  /\ UNCHANGED errAt
  /\ MainGoesOn("ok")
  /\ UNCHANGED <<graphVars, loopVars, toolVars, dynVars, execVars>>

\* a wrong demoStreamErrors: the try block holds the loop only, so an error
\* of model.stream itself leaves the function
StreamThrowLoopOnly ==
  /\ spc \in {"call", "iterating"}
  /\ IF CurrentDemo = "demoStreamErrors" /\ spc = "iterating"
     THEN /\ errAt' = << [stage |-> "chunk", chunks |-> Len(delivered)] >>
          /\ printed' = Append(printed, "error")
          /\ delivered' = <<>>
          /\ MainGoesOn("caught")
     ELSE /\ spc' = "rejected"
          /\ printed' = Append(printed, "console.error")
          /\ UNCHANGED <<demo, delivered, outcomes, errAt>>
  /\ UNCHANGED <<fullResponse, chunkCount>>
  /\ UNCHANGED <<graphVars, loopVars, toolVars, dynVars, execVars>>

\* an error is raised while the stream is opened or while the next chunk is
\* awaited. In demoStreamErrors both happen inside the try block: the catch
\* block prints the error, the function returns and main goes on. The other
\* demos have no handler: the rejection leaves the demo and main and reaches
\* .catch(console.error)
StreamThrow ==
  /\ spc \in {"call", "iterating"}
  /\ IF CurrentDemo = "demoStreamErrors"
     THEN /\ errAt' = << [stage |-> IF spc = "call" THEN "open" ELSE "chunk",
                          chunks |-> IF spc = "call" THEN 0 ELSE Len(delivered)] >>
          /\ printed' = Append(printed, "error")
          /\ delivered' = <<>>
          /\ MainGoesOn("caught")
     ELSE /\ spc' = "rejected"
          /\ printed' = Append(printed, "console.error")
          /\ UNCHANGED <<demo, delivered, outcomes, errAt>>
  /\ UNCHANGED <<fullResponse, chunkCount>>
  /\ UNCHANGED <<graphVars, loopVars, toolVars, dynVars, execVars>>

\* main before its first demo
StreamStart ==
  /\ demo = 1
  /\ spc = "call"
  /\ delivered = <<>>
  /\ fullResponse = ""
  /\ chunkCount = 0
  /\ outcomes = <<>>
  /\ errAt = <<>>
  /\ printed = <<>>

\* --------------------------------------------------------- the graph run
\* a wrong invoke: the run starts from the defaults and ignores the input
InvokeIgnoresInput ==
  /\ pc = "idle"
  /\ \E in \in Inputs :
       /\ input' = in
       /\ state' = Defaults
  /\ pc' = "running"
  /\ at' = START
  /\ UNCHANGED <<prog, running, trace, result, base, applied, prev, acc>>
  /\ UNCHANGED graphExt
  /\ UNCHANGED otherVars

\* invoke(input): the State is created from the declared defaults and the
\* caller's partial state is merged into it with the fields' merge rules
Invoke ==
  /\ pc = "idle"
  /\ \E in \in Inputs :
       /\ input' = in
       /\ state' = ApplyUpdate(Defaults, in)
       /\ heap' = MergeItems(heap, itemsRef, in).heap
       /\ itemsRef' = MergeItems(heap, itemsRef, in).ref
  /\ pc' = "running"
  /\ at' = START
  /\ UNCHANGED <<prog, running, trace, result, base, applied, prev, acc>>
  /\ UNCHANGED <<error, out, sawRef>>
  /\ UNCHANGED otherVars

\* a wrong runtime: the next node is started without waiting for the node
\* that is executing to return
NodeStartEager ==
  /\ pc = "running"
  /\ Len(trace) < 3
  /\ \E e \in graphBuilder(prog) :
       /\ e[1] = (IF running # "none" THEN running ELSE at)
       /\ e[2] # END
       /\ running' = e[2]
       /\ trace' = Append(trace, [node |-> e[2], saw |-> state])
  /\ sawRef' = Append(sawRef, itemsRef)
  /\ UNCHANGED <<prog, pc, input, state, at, result, base, applied, prev, acc>>
  /\ UNCHANGED <<error, out, heap, itemsRef>>
  /\ UNCHANGED otherVars

\* a wrong runtime: a node that failed is started again
NodeStartAfterFailure ==
  /\ pc \in {"running", "failed"}
  /\ Len(trace) < 3
  /\ running = "none"
  /\ \E e \in graphBuilder(prog) :
       /\ e[1] = at
       /\ e[2] # END
       /\ running' = e[2]
       /\ trace' = Append(trace, [node |-> e[2], saw |-> state])
  /\ sawRef' = Append(sawRef, itemsRef)
  /\ pc' = "running"
  /\ UNCHANGED <<prog, input, state, at, result, base, applied, prev, acc>>
  /\ UNCHANGED <<error, out, heap, itemsRef>>
  /\ UNCHANGED otherVars

\* the runtime follows an edge from the last finished node and calls the
\* node it leads to with the current State
NodeStart ==
  /\ pc = "running"
  /\ running = "none"
  /\ \E e \in graphBuilder(prog) :
       /\ e[1] = at
       /\ e[2] # END
       /\ running' = e[2]
       /\ trace' = Append(trace, [node |-> e[2], saw |-> state])
  /\ sawRef' = Append(sawRef, itemsRef)
  /\ UNCHANGED <<prog, pc, input, state, at, result, base, applied, prev, acc>>
  /\ UNCHANGED <<error, out, heap, itemsRef>>
  /\ UNCHANGED otherVars

\* the node returns its partial update and the runtime merges it
NodeReturn ==
  /\ pc = "running"
  /\ running # "none"
  /\ LET update == NodeFn(prog, running, trace[Len(trace)].saw)
     IN  /\ state' = ApplyUpdate(state, update)
         /\ heap' = MergeItems(heap, itemsRef, update).heap
         /\ itemsRef' = MergeItems(heap, itemsRef, update).ref
  /\ at' = running
  /\ running' = "none"
  /\ UNCHANGED <<prog, pc, input, trace, result, base, applied, prev, acc>>
  /\ UNCHANGED <<error, out, sawRef>>
  /\ UNCHANGED otherVars

\* the node throws (or its promise rejects): the runtime has no handler, the
\* run ends there and invoke rejects
NodeThrow ==
  /\ pc = "running"
  /\ running # "none"
  /\ error' = running
  /\ running' = "none"
  /\ pc' = "failed"
  /\ UNCHANGED <<prog, input, state, at, trace, result, base, applied, prev, acc>>
  /\ UNCHANGED <<out, heap, itemsRef, sawRef>>
  /\ UNCHANGED otherVars

\* the edge to END is reached: invoke returns the final State
Finish ==
  /\ pc = "running"
  /\ running = "none"
  /\ <<at, END>> \in graphBuilder(prog)
  /\ result' = <<state>>
  /\ pc' = "done"
  /\ UNCHANGED <<prog, input, state, at, running, trace, base, applied, prev, acc>>
  /\ UNCHANGED graphExt
  /\ UNCHANGED otherVars

\* a wrong script: the final state is printed whether or not invoke rejected
PrintFinalAlways ==
  /\ pc \in {"done", "failed"}
  /\ out = <<>>
  /\ out' = <<"final">>
  /\ UNCHANGED <<prog, pc, input, state, at, running, trace, result>>
  /\ UNCHANGED <<base, applied, prev, acc, error, heap, itemsRef, sawRef>>
  /\ UNCHANGED otherVars

\* demonstrateState / main after the await: the final state is printed
PrintFinal ==
  /\ pc = "done"
  /\ out = <<>>
  /\ out' = <<"final">>
  /\ UNCHANGED <<prog, pc, input, state, at, running, trace, result>>
  /\ UNCHANGED <<base, applied, prev, acc, error, heap, itemsRef, sawRef>>
  /\ UNCHANGED otherVars

\* the rejection leaves demonstrateState / main and reaches
\* .catch(console.error)
CatchError ==
  /\ pc = "failed"
  /\ out = <<>>
  /\ out' = <<"error">>
  /\ UNCHANGED <<prog, pc, input, state, at, running, trace, result>>
  /\ UNCHANGED <<base, applied, prev, acc, error, heap, itemsRef, sawRef>>
  /\ UNCHANGED otherVars

\* the graph variables added to the run before invoke is called
GraphExtIdle ==
  /\ error = "none"
  /\ out = <<>>
  /\ heap = << <<>> >>
  /\ itemsRef = 1
  /\ sawRef = <<>>

Init ==
  /\ prog \in Progs
  /\ pc = "idle"
  /\ input = <<>>
  /\ state = Defaults
  /\ at = START
  /\ running = "none"
  /\ trace = <<>>
  /\ result = <<>>
  /\ base = Defaults
  /\ applied = <<>>
  /\ prev = Defaults
  /\ acc = Defaults
  /\ GraphExtIdle
  /\ LoopStart
  /\ ToolIdle
  /\ DynStart
  /\ StreamStart
  /\ ExecIdle

Next ==
  \/ Invoke
  \/ NodeStart
  \/ NodeReturn
  \/ NodeThrow
  \/ Finish
  \/ PrintFinal
  \/ CatchError

Spec == Init /\ [][Next]_vars

\* ------------------------------------------------ the merge specification
\* the merge function applied to a state and a sequence of arbitrary updates
MergeStep ==
  /\ Len(applied) < MaxSteps
  /\ \E u \in Updates :
       /\ prev' = acc
       /\ acc' = ApplyUpdate(acc, u)
       /\ applied' = Append(applied, u)
  /\ UNCHANGED <<prog, pc, input, state, at, running, trace, result, base>>
  /\ UNCHANGED graphExt
  /\ UNCHANGED otherVars

InitMerge ==
  /\ prog = "state"
  /\ pc = "idle"
  /\ input = <<>>
  /\ state = Defaults
  /\ at = START
  /\ running = "none"
  /\ trace = <<>>
  /\ result = <<>>
  /\ base \in {ApplyUpdate(Defaults, in) : in \in Inputs}
  /\ applied = <<>>
  /\ prev = base
  /\ acc = base
  /\ GraphExtIdle
  /\ LoopStart
  /\ ToolIdle
  /\ DynStart
  /\ StreamStart
  /\ ExecIdle

NextMerge == MergeStep

SpecMerge == InitMerge /\ [][NextMerge]_vars

\* --------------------------------------------------- the other specifications
\* the graph and merge variables when no graph is run
GraphIdle ==
  /\ prog = "state"
  /\ pc = "idle"
  /\ input = <<>>
  /\ state = Defaults
  /\ at = START
  /\ running = "none"
  /\ trace = <<>>
  /\ result = <<>>
  /\ base = Defaults
  /\ applied = <<>>
  /\ prev = Defaults
  /\ acc = Defaults
  /\ GraphExtIdle

\* demoToolLoop
InitLoop == GraphIdle /\ LoopStart /\ ToolIdle /\ DynStart /\ StreamStart /\ ExecIdle

NextLoop == LoopInvoke \/ LoopTools \/ LoopExit

SpecLoop == InitLoop /\ [][NextLoop]_vars

\* demoValidation: one invocation of transferMoney
InitTool == GraphIdle /\ LoopStart /\ ToolIdle /\ DynStart /\ StreamStart /\ ExecIdle

NextTool == ToolInvoke \/ ToolValidate \/ ToolExecute

SpecTool == InitTool /\ [][NextTool]_vars

\* the tool factories of 04-dynamic-tools.ts
InitDyn == GraphIdle /\ LoopStart /\ ToolIdle /\ DynStart /\ StreamStart /\ ExecIdle

NextDyn == DemoContext \/ DemoFactory \/ InvokeCompanyTool

SpecDyn == InitDyn /\ [][NextDyn]_vars

\* main of 04-streaming.ts: the demos one after another
InitStream == GraphIdle /\ LoopStart /\ ToolIdle /\ DynStart /\ StreamStart /\ ExecIdle

NextStream == StreamOpen \/ StreamChunk \/ StreamEnd \/ DemoReturn \/ StreamThrow

SpecStream == InitStream /\ [][NextStream]_vars

\* one call of executeToolCalls
InitExec == GraphIdle /\ LoopStart /\ ToolIdle /\ DynStart /\ StreamStart /\ ExecIdle

NextExec == ExecCall \/ ExecBegin \/ ExecPush \/ ExecThrow \/ ExecReturn

SpecExec == InitExec /\ [][NextExec]_vars

\* demoToolLoop where every await settles: a pass that can be made is made
SpecLoopFair == SpecLoop /\ WF_vars(NextLoop)

\* ----------------------------------------------------------------- claims
\* the update merged last in the merge specification
LastUpdate == applied[Len(applied)]

\* the items of a sequence of updates, concatenated in order
RECURSIVE ItemsOf(_)
ItemsOf(updates) ==
  IF updates = <<>> THEN <<>>
  ELSE (IF "items" \in DOMAIN Head(updates) THEN Head(updates)["items"] ELSE <<>>)
         \o ItemsOf(Tail(updates))

\* the nodes started so far, in order
TraceNodes == [i \in 1..Len(trace) |-> trace[i].node]

\* the updates returned by the first k nodes of the trace
TraceUpdates(k) == [i \in 1..k |-> NodeFn(prog, trace[i].node, trace[i].saw)]

\* C1: after an update that carries `name` is merged, the state's name is
\* exactly the update's name, whatever the name was before.
C1_OverwriteLastWins ==
  (applied # <<>> /\ "name" \in DOMAIN LastUpdate)
    => ("name" \in DOMAIN acc /\ acc["name"] = LastUpdate["name"])

\* C1 witness: a name was overwritten by a different name.
C1_Witness ==
  /\ applied # <<>>
  /\ "name" \in DOMAIN LastUpdate
  /\ "name" \in DOMAIN prev
  /\ prev["name"] # LastUpdate["name"]

\* C2: the items after a sequence of updates are the prior items followed by
\* the items of every update in the order the updates were merged.
C2_AppendInOrder ==
  acc["items"] = base["items"] \o ItemsOf(applied)

\* C2 witness: {items: [a]} then {items: [b]} were merged onto a non-empty list.
C2_Witness ==
  /\ Len(applied) = 2
  /\ base["items"] # <<>>
  /\ applied[1] = [f \in {"items"} |-> <<"a">>]
  /\ applied[2] = [f \in {"items"} |-> <<"b">>]
  /\ acc["items"] = base["items"] \o <<"a", "b">>

\* C3: invoked with {}, the graph START -> nodeA -> nodeB -> END returns the
\* name nodeA set and the items [nodeA's item, nodeB's item].
C3_EndToEnd ==
  (pc = "done" /\ input = <<>>)
    => /\ Len(result) = 1
       /\ DOMAIN result[1] = {"name", "items"}
       /\ prog = "state" =>
            /\ result[1]["name"] = "John"
            /\ result[1]["items"] = <<"Apple", "Banana">>
       /\ prog = "nodes" =>
            /\ result[1]["name"] = "Ada Lovelace"
            /\ result[1]["items"] = <<"First Algorithm", "Analytical Engine">>

\* C3 witness: a run of 02-nodes.ts invoked with {} has returned.
C3_Witness ==
  /\ pc = "done"
  /\ input = <<>>
  /\ prog = "nodes"
  /\ TraceNodes = <<"node_a", "node_b">>

\* C4: a field absent from an update has the same value (or the same absence
\* of a value) after the merge as before; the empty update changes nothing.
C4_AbsentFieldsUnchanged ==
  applied # <<>>
    => /\ \A f \in Fields \ DOMAIN LastUpdate :
            /\ (f \in DOMAIN acc) = (f \in DOMAIN prev)
            /\ f \in DOMAIN prev => acc[f] = prev[f]
       /\ LastUpdate = <<>> => acc = prev

\* C4 witness: the only update merged is {} and the state is the defaults.
C4_Witness ==
  /\ applied = << <<>> >>
  /\ base = Defaults
  /\ acc = Defaults

C7_InputMergedOntoDefaults ==
  LET inItems == IF "items" \in DOMAIN input THEN input["items"] ELSE <<>>
  IN  /\ Len(trace) >= 1 =>
            /\ trace[1].saw["items"] = inItems
            /\ "name" \in DOMAIN input =>
                 /\ "name" \in DOMAIN trace[1].saw
                 /\ trace[1].saw["name"] = input["name"]
      /\ pc = "done" =>
            /\ Len(result[1]["items"]) = Len(inItems) + 2
            /\ SubSeq(result[1]["items"], 1, Len(inItems)) = inItems

\* C7 witness: a run invoked with a name and a non-empty items list returned.
C7_Witness ==
  /\ pc = "done"
  /\ "name" \in DOMAIN input
  /\ "items" \in DOMAIN input
  /\ input["items"] # <<>>
  /\ SubSeq(result[1]["items"], 1, Len(input["items"])) = input["items"]

\* the updates with the two items-only updates at i and i+1 made into one
Coalesce(updates, i) ==
  [k \in 1..(Len(updates) - 1) |->
     IF k < i THEN updates[k]
     ELSE IF k = i
          THEN [f \in {"items"} |-> updates[i]["items"] \o updates[i + 1]["items"]]
          ELSE updates[k + 1]]

\* C8: reducing the updates one after another gives the same items as
\* reducing them with two neighbouring items-only updates joined into one.
C8_AppendAssociative ==
  \A i \in 1..(Len(applied) - 1) :
    (DOMAIN applied[i] = {"items"} /\ DOMAIN applied[i + 1] = {"items"})
      => ReduceUpdates(base, Coalesce(applied, i))["items"] = acc["items"]

\* C8 witness: three single-item updates were reduced onto a non-empty list.
C8_Witness ==
  /\ Len(applied) = 3
  /\ base["items"] # <<>>
  /\ applied[1] = [f \in {"items"} |-> <<"a">>]
  /\ applied[2] = [f \in {"items"} |-> <<"b">>]
  /\ applied[3] = [f \in {"items"} |-> <<"a">>]

\* C9: the steps run in the declared order, none twice, and invoke returns
\* the final State only after both nodeA and nodeB have run once.
C9_EveryStepOnceInOrder ==
  LET order == <<NodeAName(prog), NodeBName(prog)>>
  IN  /\ Len(trace) <= 2
      /\ TraceNodes = SubSeq(order, 1, Len(trace))
      /\ pc = "done" =>
            /\ TraceNodes = order
            /\ running = "none"
            /\ result = <<state>>
      /\ pc # "done" => result = <<>>

\* C9 witness: a run has returned after nodeA and nodeB.
C9_Witness ==
  /\ pc = "done"
  /\ Len(trace) = 2
  /\ result = <<state>>

\* C10: every step is given the state obtained by merging the whole updates
\* of all the steps before it onto the initial state.
C10_StepSeesMergedState ==
  \A i \in 1..Len(trace) :
    LET expected == ReduceUpdates(ApplyUpdate(Defaults, input), TraceUpdates(i - 1))
    IN  /\ DOMAIN trace[i].saw = DOMAIN expected
        /\ \A f \in DOMAIN expected : trace[i].saw[f] = expected[f]
        /\ i = 2 =>
             /\ "name" \in DOMAIN trace[i].saw
             /\ trace[i].saw["name"] = nodeA(prog, trace[1].saw)["name"]
             /\ trace[i].saw["items"]
                  = trace[1].saw["items"] \o nodeA(prog, trace[1].saw)["items"]

\* C10 witness: nodeB was started by a run whose caller supplied a name.
C10_Witness ==
  /\ Len(trace) = 2
  /\ trace[2].node = NodeBName(prog)
  /\ "name" \in DOMAIN input
  /\ trace[2].saw["name"] # input["name"]

\* the number of nodes whose update has been merged
Completed ==
  IF at = START THEN 0 ELSE IF at = NodeAName(prog) THEN 1 ELSE 2

\* C11: at most one step is executing at any time: a node is started only
\* when every node started before it has returned and been merged.
C11_OneStepAtATime ==
  LET inFlight == Len(trace) - Completed - (IF error # "none" THEN 1 ELSE 0)
  IN  /\ inFlight \in {0, 1}
      /\ (inFlight = 1) = (running # "none")
      /\ running # "none" => trace[Len(trace)].node = running
      /\ \A i \in 1..Len(trace) :
           DOMAIN trace[i].saw # {} /\ Len(trace[i].saw["items"]) >= i - 1

\* C11 witness: nodeB is executing after nodeA has returned and been merged.
C11_Witness ==
  /\ Len(trace) = 2
  /\ running = NodeBName(prog)
  /\ at = NodeAName(prog)

\* C12: when a step fails the caller gets the failure and no final State:
\* invoke returns nothing, the final state is never printed and the only
\* output is the error handed to console.error.
C12_FailureSurfaced ==
  /\ pc = "failed" => (result = <<>> /\ error # "none" /\ out \in {<<>>, <<"error">>})
  /\ out = <<"final">> => (pc = "done" /\ error = "none" /\ Len(result) = 1)
  /\ out = <<"error">> => pc = "failed"

\* C12 witness: nodeB failed and the error reached console.error.
C12_Witness ==
  /\ pc = "failed"
  /\ error = NodeBName(prog)
  /\ out = <<"error">>
  /\ result = <<>>

\* C13: a failed step ends the run: it is the last node started, no node is
\* started twice, nothing is returned, and the State keeps exactly the
\* updates merged before the failure.
C13_FailureIsFatal ==
  /\ pc = "failed" =>
       /\ trace # <<>>
       /\ trace[Len(trace)].node = error
       /\ running = "none"
       /\ result = <<>>
       /\ state = ReduceUpdates(ApplyUpdate(Defaults, input), TraceUpdates(Len(trace) - 1))
  /\ \A i, j \in 1..Len(trace) : i # j => trace[i].node # trace[j].node
  /\ pc \in {"done", "failed"} => running = "none"
  /\ pc = "done" => (error = "none" /\ Len(trace) = 2)

\* C13 witness: nodeB failed after nodeA's update was merged, and the State
\* still holds nodeA's update.
C13_Witness ==
  /\ pc = "failed"
  /\ error = NodeBName(prog)
  /\ Len(trace) = 2
  /\ "name" \in DOMAIN state
  /\ state["name"] = nodeA(prog, trace[1].saw)["name"]

C16_NoMutation ==
  /\ Len(sawRef) = Len(trace)
  /\ heap[1] = <<>>
  /\ heap[itemsRef] = state["items"]
  /\ \A i \in 1..Len(trace) : heap[sawRef[i]] = trace[i].saw["items"]

\* C16 witness: both nodes returned and both merges ran; the arrays the nodes
\* were given differ from the final items.
C16_Witness ==
  /\ pc = "done"
  /\ Len(trace) = 2
  /\ heap[sawRef[1]] # heap[sawRef[2]]
  /\ heap[sawRef[2]] # state["items"]

\* the model responses pushed onto the history, in order
AIResponses == SelectSeq(messages, LAMBDA m : m.type = "ai")

\* the last message of the history
LastMessage == messages[Len(messages)]

WellFormedAccounts == {AccountBR, AccountUS}

\* C18: with an account that is not of the form XX0000000000, or with equal
\* accounts, the tool function never runs and the invocation ends in the
\* caller's catch; with valid arguments the function runs and returns.
C18_ValidationBeforeExecution ==
  targs # <<>> =>
    LET a == targs[1]
        badAccounts ==
          \/ a["fromAccount"] \notin WellFormedAccounts
          \/ a["toAccount"] \notin WellFormedAccounts
          \/ a["fromAccount"] = a["toAccount"]
        allValid ==
          /\ ~badAccounts
          /\ a["amount"] \in {100, MaxAmount}
          /\ "currency" \in DOMAIN a => a["currency"] # "JPY"
          /\ "description" \in DOMAIN a => Len(a["description"]) <= MaxDescription
    IN  /\ badAccounts => (~bodyRan /\ tpc \in {"validating", "caught"})
        /\ (badAccounts /\ tpc = "caught") => ~toutcome[1].success
        /\ bodyRan => (allValid /\ tpc = "returned")
        /\ (allValid /\ tpc \notin {"validating", "executing"}) =>
             /\ tpc = "returned"
             /\ bodyRan
             /\ toutcome[1].success
             /\ toutcome[1].from = a["fromAccount"]
             /\ toutcome[1].to = a["toAccount"]

\* C18 witness: an invocation with equal, well-formed accounts ended in the
\* catch block without running the function.
C18_Witness ==
  /\ tpc = "caught"
  /\ targs[1]["fromAccount"] = AccountBR
  /\ targs[1]["toAccount"] = AccountBR
  /\ targs[1]["amount"] = 100
  /\ ~bodyRan

\* the names of a sequence of tools
ToolNames(tools) == [i \in 1..Len(tools) |-> tools[i].name]

\* C19: the tools made for a user hold get_current_user always, get_report
\* exactly for the read_reports permission and admin_user_action exactly for
\* the admin role; a guest without permissions gets the basic tool only.
C19_PermissionBasedTools ==
  user # <<>> =>
    LET u == user[1]
        names == {userTools[i].name : i \in 1..Len(userTools)}
        reads == \E i \in 1..Len(u.permissions) : u.permissions[i] = "read_reports"
    IN  /\ names \subseteq {"get_current_user", "get_report", "admin_user_action"}
        /\ Cardinality(names) = Len(userTools)
        /\ "get_current_user" \in names
        /\ ("get_report" \in names) = reads
        /\ ("admin_user_action" \in names) = (u.role = "admin")
        /\ (u.role = "guest" /\ u.permissions = <<>>)
             => ToolNames(userTools) = <<"get_current_user">>
        /\ \A i \in 1..Len(userTools) : userTools[i].user = u

\* C19 witness: a user who is not admin but has the manage_users and
\* read_reports permissions got the basic and the report tool only.
C19_Witness ==
  /\ user # <<>>
  /\ user[1].role = "user"
  /\ user[1].permissions = <<"manage_users", "read_reports">>
  /\ ToolNames(userTools) = <<"get_current_user", "get_report">>

\* the tool name written out for each id of the database
ExpectedToolName(id) ==
  IF id = "apple" THEN "get_apple_info"
  ELSE IF id = "google" THEN "get_google_info"
  ELSE "get_tesla_info"

\* C20: the factory makes one tool per record, in record order, named
\* get_<id>_info, and a tool's result is made from its own record.
C20_OneToolPerCompany ==
  /\ Len(companyTools) = Len(companies)
  /\ \A i \in 1..Len(companyTools) :
       companyTools[i].name = ExpectedToolName(companies[i].id)
  /\ lastResult # <<>> =>
       LET r == lastResult[1]
           c == companies[r.tool]
       IN  /\ r.data.name = c.name
           /\ r.data.industry = c.industry
           /\ r.data.revenue = c.revenue
           /\ r.data.founded = c.founded
           /\ r.data.age = r.year - c.founded

\* C20 witness: of the tools made for tesla, apple, google, the first was
\* invoked and gave Tesla's data.
C20_Witness ==
  /\ Len(companies) = 3
  /\ companies[1].id = "tesla"
  /\ companies[2].id = "apple"
  /\ companies[3].id = "google"
  /\ lastResult # <<>>
  /\ lastResult[1].tool = 1
  /\ lastResult[1].data.name = "Tesla Inc."

\* the texts of a sequence of chunk contents, joined in order
RECURSIVE JoinAll(_)
JoinAll(contents) ==
  IF contents = <<>> THEN "" ELSE Head(contents) \o JoinAll(Tail(contents))

\* C21: in demoCollectStream, while the loop runs and after it has finished,
\* fullResponse is the contents of the chunks received so far joined in the
\* order of arrival and chunkCount is their number; a stream that ends
\* without a chunk leaves '' and 0.
C21_CollectInArrivalOrder ==
  (CurrentDemo = "demoCollectStream" /\ spc \in {"iterating", "finished"})
    => /\ fullResponse = JoinAll(delivered)
       /\ chunkCount = Len(delivered)
       /\ delivered = <<>> => (fullResponse = "" /\ chunkCount = 0)

\* C21 witness: the loop of demoCollectStream has finished after the chunks
\* "Script", "" and "Type", in that order.
C21_Witness ==
  /\ CurrentDemo = "demoCollectStream"
  /\ spc = "finished"
  /\ delivered = <<"Script", "", "Type">>
  /\ fullResponse = "ScriptType"
  /\ chunkCount = 3

\* C22: an error raised in demoStreamErrors, while the stream is opened or
\* at any chunk, never leaves the function: the error line is printed, the
\* success line is not, and main is at the next demo; main is rejected only
\* by another demo.
C22_StreamErrorsCaught ==
  LET lines == {printed[i] : i \in 1..Len(printed)}
  IN  /\ spc = "rejected" => CurrentDemo # "demoStreamErrors"
      /\ errAt # <<>> =>
           /\ Len(outcomes) >= 6
           /\ outcomes[6] = "caught"
           /\ "error" \in lines
           /\ "success" \notin lines
           /\ CurrentDemo = "demoPerformanceComparison"
      /\ "success" \in lines =>
           (errAt = <<>> /\ Len(outcomes) >= 6 /\ outcomes[6] = "ok")
      /\ (Len(outcomes) >= 6 /\ outcomes[6] = "caught") => errAt # <<>>

\* C22 witness: the stream of demoStreamErrors failed after two chunks, and
\* main is iterating the stream of demoPerformanceComparison.
C22_Witness ==
  /\ errAt = << [stage |-> "chunk", chunks |-> 2] >>
  /\ outcomes[6] = "caught"
  /\ CurrentDemo = "demoPerformanceComparison"
  /\ spc = "iterating"
  /\ delivered # <<>>

RECURSIVE HistoryFrom(_)
HistoryFrom(i) ==
  IF i > Len(messages) THEN TRUE
  ELSE /\ messages[i].type = "ai"
       /\ LET calls == messages[i].tool_calls
              n == Len(calls)
          IN  IF n = 0 THEN i = Len(messages) /\ lpc = "done"
              ELSE IF i = Len(messages) THEN lpc = "tools"
              ELSE /\ i + n <= Len(messages)
                   /\ \A k \in 1..n :
                        /\ messages[i + k].type = "tool"
                        /\ messages[i + k].name = calls[k]["name"]
                        /\ "id" \in DOMAIN calls[k] =>
                             messages[i + k].tool_call_id = calls[k]["id"]
                   /\ HistoryFrom(i + n + 1)

\* C24: the history of demoToolLoop begins with the user's message; after it
\* come the model's responses, each pushed in the pass that received it and
\* each tool-calling one followed by exactly one ToolMessage per call, in
\* call order, before the model is invoked again; a step only appends.
C24_HistoryWellOrdered ==
  /\ [](/\ messages[1] = HumanMessage
        /\ HistoryFrom(2)
        /\ lpc = "tools" => (LastMessage.type = "ai" /\ LastMessage.tool_calls # <<>>)
        /\ lpc = "top" => LastMessage.type \in {"human", "tool"})
  /\ [][/\ Len(messages') >= Len(messages)
        /\ SubSeq(messages', 1, Len(messages)) = messages
        /\ iteration' = iteration + 1 =>
             (Len(messages') = Len(messages) + 1 /\ messages'[Len(messages')].type = "ai")
       ]_vars

\* C24 witness: a response with two calls was followed by the results of
\* convert_units and get_weather, in that order, and then by the next response.
C24_Witness ==
  /\ Len(messages) >= 5
  /\ messages[2] = AIMessage(<<ConvertCall, WeatherCall>>)
  /\ messages[3].type = "tool"
  /\ messages[3].name = "convert_units"
  /\ messages[4].type = "tool"
  /\ messages[4].name = "get_weather"
  /\ messages[4].tool_call_id = "call_a"
  /\ messages[5].type = "ai"

\* C25: executeToolCalls executes the calls one at a time in the order given
\* and, when it returns, results holds exactly one ToolMessage per call, in
\* call order, each with the name of its call and, when the call has an id,
\* that id as tool_call_id.
C25_OneMessagePerCall ==
  /\ Cardinality(ecur) <= 1
  /\ \A c \in ecur : c.k = Len(results) + 1
  /\ Len(results) <= Len(ecalls)
  /\ \A k \in 1..Len(results) :
       /\ results[k].type = "tool"
       /\ results[k].name = ecalls[k]["name"]
       /\ "id" \in DOMAIN ecalls[k] => results[k].tool_call_id = ecalls[k]["id"]
  /\ epc = "returned" =>
       /\ Len(results) = Len(ecalls)
       /\ \E times \in ClockReadings(0, Len(ecalls)) :
            results = executeToolCalls(ecalls, times)

\* C25 witness: executeToolCalls has returned the results of get_stock,
\* convert_units and get_weather, in the order of the three calls.
C25_Witness ==
  /\ epc = "returned"
  /\ ecalls = <<UnknownCall, ConvertCall, WeatherCall>>
  /\ Len(results) = 3
  /\ results[1].name = "get_stock"
  /\ results[1].tool_call_id = "call_b"
  /\ results[2].name = "convert_units"
  /\ results[3].name = "get_weather"
  /\ results[3].tool_call_id = "call_a"

\* C26: the tool_call_ids of the batch executeToolCalls returns are pairwise
\* different, also those made from Date.now() for calls without an id.
C26_DistinctToolCallIds ==
  epc = "returned" =>
    \A i, j \in 1..Len(results) :
      i # j => results[i].tool_call_id # results[j].tool_call_id

====
